---- MODULE Spec2Model ----
(***************************************************************************)
(* Model of ocr/utils.py: AverageMeter, FilesLimitControl and              *)
(* load_pretrain_model.  The three components share no state, so each has  *)
(* its own specification (SpecMeter, SpecFiles, SpecLoader) over its own   *)
(* variables; the variables of the other components stay at their initial  *)
(* values.                                                                 *)
(***************************************************************************)
EXTENDS Integers, Sequences, FiniteSets, TLC

\* ------------------------------------------------------------------ bounds
MaxUpdates == 3      \* update() calls since the last reset()
MaxVal == 2          \* metric values passed to update() are 0..MaxVal
MaxWeight == 2       \* weights passed to update() are 0..MaxWeight
NumPaths == 3        \* distinct checkpoint paths
MaxRegs == 4         \* FilesLimitControl.__call__ invocations
MaxCapacity == 2     \* max_weights_to_save is drawn from 1..MaxCapacity
NumKeys == 3         \* parameter names known to the model or the checkpoint

VARIABLES
    \* AverageMeter
    avg, sum, count,
    updates,                \* history: <<val, n>> of every update() since the last reset()
    meterCall,              \* history: the last call made on the meter
    \* FilesLimitControl
    saved_weights_paths, max_weights_to_save,
    disk,                   \* the paths that exist on the file system
    registered,             \* history: every save_path passed to __call__, in order
    evicted,                \* history: every path popped from saved_weights_paths, in order
    existedAtReg,           \* history: path -> did its file exist when it was last registered
    call,                   \* history: what the last __call__ did
    \* load_pretrain_model
    model,                  \* the model's parameters: name -> tensor
    old_dict,               \* the checkpoint read by torch.load: name -> tensor
    new_dict,               \* the returned mapping
    log,                    \* the lines the logger received
    pc

meterVars == <<avg, sum, count, updates, meterCall>>
filesVars == <<saved_weights_paths, max_weights_to_save, disk, registered,
               evicted, existedAtReg, call>>
loaderVars == <<model, old_dict, new_dict, log, pc>>
vars == <<meterVars, filesVars, loaderVars>>

Range(s) == {s[i] : i \in 1..Len(s)}

\* ============================================================ AverageMeter
\* Python's true division, kept exact: a rational in lowest terms <<num, den>>.
RECURSIVE Gcd(_, _)
Gcd(a, b) == IF b = 0 THEN a ELSE Gcd(b, a % b)

TrueDiv(a, b) == LET g == Gcd(a, b) IN <<a \div g, b \div g>>

Zero == <<0, 1>>

Vals == 0..MaxVal
Weights == 0..MaxWeight

\* AverageMeter.__init__: self.reset()
InitMeter ==
    /\ avg = Zero
    /\ sum = 0
    /\ count = 0
    /\ updates = <<>>
    /\ meterCall = [op |-> "init", val |-> 0, n |-> 0, countBefore |-> 0, raised |-> FALSE]

reset ==
    /\ avg' = Zero
    /\ sum' = 0
    /\ count' = 0
    /\ updates' = <<>>
    /\ meterCall' = [op |-> "reset", val |-> 0, n |-> 0, countBefore |-> count,
                     raised |-> FALSE]

\* count += n
AddCountBug(c, n) == c + 1

AddCount(c, n) == c + n

\* self.sum += val * n; self.count += n; self.avg = self.sum / self.count
\* The division raises ZeroDivisionError when the new count is 0; sum and
\* count have been assigned by then and avg keeps its value.
update(val, n) ==
    /\ Len(updates) < MaxUpdates
    /\ sum' = sum + val * n
    /\ count' = AddCount(count, n)
    /\ updates' = Append(updates, <<val, n>>)
    /\ IF count' = 0
         THEN /\ avg' = avg
              /\ meterCall' = [op |-> "update", val |-> val, n |-> n,
                               countBefore |-> count, raised |-> TRUE]
         ELSE /\ avg' = TrueDiv(sum', count')
              /\ meterCall' = [op |-> "update", val |-> val, n |-> n,
                               countBefore |-> count, raised |-> FALSE]

\* ======================================================= FilesLimitControl
Paths == 1..NumPaths

NoCall == [path |-> 0, evicted |-> <<>>, existed |-> FALSE, deleted |-> {},
           logged |-> <<>>, raised |-> FALSE]

InitFiles ==
    /\ saved_weights_paths = <<>>
    /\ max_weights_to_save \in 1..MaxCapacity
    /\ disk \in SUBSET Paths
    /\ registered = <<>>
    /\ evicted = <<>>
    /\ existedAtReg = [p \in Paths |-> FALSE]
    /\ call = NoCall

\* len(self.saved_weights_paths) > self.max_weights_to_save
OverLimitOffByOne(paths, limit) == Len(paths) > limit + 1

OverLimit(paths, limit) == Len(paths) > limit

\* self.saved_weights_paths.pop(0)
PopNewest(paths) == [old |-> paths[Len(paths)], rest |-> SubSeq(paths, 1, Len(paths) - 1)]

Pop0(paths) == [old |-> paths[1], rest |-> Tail(paths)]

\* os.remove(path) on a regular file: FileNotFoundError when it is absent
OsRemove(d, path) ==
    IF path \in d THEN [disk |-> d \ {path}, raised |-> FALSE]
                  ELSE [disk |-> d, raised |-> TRUE]

InfoRemoved(path) == [level |-> "info", msg |-> <<"Weigths removed", path>>]

\* if os.path.exists(old): os.remove(old); logger.info(...)
RemoveUnchecked(d, old) ==
    LET r == OsRemove(d, old)
    IN  [disk |-> r.disk, raised |-> r.raised,
         logged |-> IF r.raised THEN <<>> ELSE <<InfoRemoved(old)>>]

RemoveLogAlways(d, old) ==
    IF old \in d
      THEN [disk |-> OsRemove(d, old).disk, raised |-> FALSE, logged |-> <<InfoRemoved(old)>>]
      ELSE [disk |-> d, raised |-> FALSE, logged |-> <<InfoRemoved(old)>>]

RemoveIfExists(d, old) ==
    IF old \in d
      THEN LET r == OsRemove(d, old)
           IN  [disk |-> r.disk, raised |-> r.raised,
                logged |-> IF r.raised THEN <<>> ELSE <<InfoRemoved(old)>>]
      ELSE [disk |-> d, raised |-> FALSE, logged |-> <<>>]

\* FilesLimitControl.__call__(save_path)
Register(save_path) ==
    /\ Len(registered) < MaxRegs
    /\ registered' = Append(registered, save_path)
    /\ existedAtReg' = [existedAtReg EXCEPT ![save_path] = save_path \in disk]
    /\ UNCHANGED max_weights_to_save
    /\ LET appended == Append(saved_weights_paths, save_path)
       IN  IF OverLimit(appended, max_weights_to_save)
             THEN LET popped == Pop0(appended)
                      r == RemoveIfExists(disk, popped.old)
                  IN  /\ saved_weights_paths' = popped.rest
                      /\ evicted' = Append(evicted, popped.old)
                      /\ disk' = r.disk
                      /\ call' = [path |-> save_path, evicted |-> <<popped.old>>,
                                  existed |-> popped.old \in disk,
                                  deleted |-> disk \ disk',
                                  logged |-> r.logged, raised |-> r.raised]
             ELSE /\ saved_weights_paths' = appended
                  /\ UNCHANGED <<evicted, disk>>
                  /\ call' = [NoCall EXCEPT !.path = save_path]

\* The training loop writes a checkpoint file (torch.save) before it
\* registers the path; the file system is otherwise left alone.
WriteFile(path) ==
    /\ path \notin disk
    /\ disk' = disk \cup {path}
    /\ UNCHANGED <<saved_weights_paths, max_weights_to_save, registered, evicted,
                   existedAtReg, call>>

\* ===================================================== load_pretrain_model
Keys == 1..NumKeys
Shapes == {<<2, 2>>, <<3, 3>>}
Data == {0, 1}
Tensor == [shape : Shapes, data : Data]
Dicts == UNION {[K -> Tensor] : K \in SUBSET Keys}
Empty == [k \in {} |-> 0]

InitLoader ==
    /\ model \in Dicts
    /\ old_dict \in Dicts
    /\ new_dict = Empty
    /\ log = <<>>
    /\ pc = "start"

\* model.state_dict(): a new mapping holding the model's tensors
state_dict(m) == [k \in DOMAIN m |-> m[k]]

\* new_dict.items() iterates in insertion order, the order of the parameter names
RECURSIVE Items(_)
Items(K) ==
    IF K = {} THEN <<>>
    ELSE LET k == CHOOSE x \in K : \A y \in K : x <= y
         IN  <<k>> \o Items(K \ {k})

NotLoaded(key) == [level |-> "info", msg |-> <<"Weights", key, "were not loaded">>]

\* the body of the for loop, for one key; st = [dict, log]
LoopBodyNoShapeCheck(st, od, key) ==
    IF key \in DOMAIN od
      THEN [st EXCEPT !.dict[key] = od[key]]
      ELSE [st EXCEPT !.log = Append(@, NotLoaded(key))]

LoopBodyQuietMismatch(st, od, key) ==
    IF key \in DOMAIN od
      THEN IF st.dict[key].shape = od[key].shape
             THEN [st EXCEPT !.dict[key] = od[key]]
             ELSE st
      ELSE [st EXCEPT !.log = Append(@, NotLoaded(key))]

LoopBody(st, od, key) ==
    IF key \in DOMAIN od
      THEN IF st.dict[key].shape = od[key].shape
             THEN [st EXCEPT !.dict[key] = od[key]]
             ELSE [st EXCEPT !.log = Append(@, NotLoaded(key))]
      ELSE [st EXCEPT !.log = Append(@, NotLoaded(key))]

RECURSIVE Loop(_, _, _)
Loop(st, od, keys) ==
    IF keys = <<>> THEN st
    ELSE Loop(LoopBody(st, od, Head(keys)), od, Tail(keys))

\* load_pretrain_model(weights_path, model, logger): old_dict is what
\* torch.load(weights_path) returned
load_pretrain_model_pops ==
    /\ pc = "start"
    /\ LET start == [dict |-> state_dict(model), log |-> <<>>]
           st == Loop(start, old_dict, Items(DOMAIN start.dict))
       IN  /\ new_dict' = st.dict
           /\ log' = st.log
           /\ old_dict' = [k \in {x \in DOMAIN old_dict :
                                     x \notin DOMAIN st.dict \/ st.dict[x] # old_dict[x]}
                             |-> old_dict[k]]
    /\ pc' = "done"
    /\ UNCHANGED model

load_pretrain_model ==
    /\ pc = "start"
    /\ LET start == [dict |-> state_dict(model), log |-> <<>>]
           st == Loop(start, old_dict, Items(DOMAIN start.dict))
       IN  /\ new_dict' = st.dict
           /\ log' = st.log
    /\ pc' = "done"
    /\ UNCHANGED <<model, old_dict>>

\* ========================================================== specifications
NextMeter ==
    \/ reset /\ UNCHANGED <<filesVars, loaderVars>>
    \/ \E val \in Vals, n \in Weights : update(val, n) /\ UNCHANGED <<filesVars, loaderVars>>

NextFiles ==
    \/ \E p \in Paths : Register(p) /\ UNCHANGED <<meterVars, loaderVars>>
    \/ \E p \in Paths : WriteFile(p) /\ UNCHANGED <<meterVars, loaderVars>>

NextLoader ==
    load_pretrain_model /\ UNCHANGED <<meterVars, filesVars>>

FilesIdle ==
    /\ saved_weights_paths = <<>>
    /\ max_weights_to_save = 1
    /\ disk = {}
    /\ registered = <<>>
    /\ evicted = <<>>
    /\ existedAtReg = [p \in Paths |-> FALSE]
    /\ call = NoCall

LoaderIdle ==
    /\ model = Empty
    /\ old_dict = Empty
    /\ new_dict = Empty
    /\ log = <<>>
    /\ pc = "start"

MeterStart == InitMeter /\ FilesIdle /\ LoaderIdle
FilesStart == InitFiles /\ InitMeter /\ LoaderIdle
LoaderStart == InitLoader /\ InitMeter /\ FilesIdle

SpecMeter == MeterStart /\ [][NextMeter]_vars
SpecFiles == FilesStart /\ [][NextFiles]_vars
SpecLoader == LoaderStart /\ [][NextLoader]_vars

\* ================================================================== claims
RECURSIVE SumWeights(_)
SumWeights(h) == IF h = <<>> THEN 0 ELSE h[1][2] + SumWeights(Tail(h))

RECURSIVE SumProducts(_)
SumProducts(h) == IF h = <<>> THEN 0 ELSE h[1][1] * h[1][2] + SumProducts(Tail(h))

AllWeightsPositive == \A i \in 1..Len(updates) : updates[i][2] >= 1

Last(s) == s[Len(s)]

\* C1: once more paths have been registered than the capacity N, the registry
\* has length N and is the last N registered paths in registration order, the
\* evicted paths are exactly the earliest M-N registered paths, and the call
\* that evicted a path deleted its file if and only if the file existed then.
C1_FifoEviction ==
    LET M == Len(registered)
        N == max_weights_to_save
    IN  M > N =>
          /\ Len(saved_weights_paths) = N
          /\ saved_weights_paths = SubSeq(registered, M - N + 1, M)
          /\ evicted = SubSeq(registered, 1, M - N)
          /\ call.evicted = <<registered[M - N]>>
          /\ call.deleted = IF call.existed THEN {registered[M - N]} ELSE {}

\* capacity 2, w1, w2, w3 registered with all three files on disk
C1_Witness ==
    /\ max_weights_to_save = 2
    /\ registered = <<1, 2, 3>>
    /\ saved_weights_paths = <<2, 3>>
    /\ call.deleted = {1}
    /\ disk = {2, 3}

\* C2: after any number of completed register calls the registry is no
\* longer than max_weights_to_save.
C2_LengthBounded == Len(saved_weights_paths) <= max_weights_to_save

C2_Witness ==
    /\ Len(registered) >= max_weights_to_save + 2
    /\ Len(saved_weights_paths) = max_weights_to_save

\* C3: the returned mapping has exactly the model's keys; a key the checkpoint
\* has with an equal shape carries the checkpoint's tensor, every other key
\* carries the model's tensor.
C3_MergeResult ==
    pc = "done" =>
      /\ DOMAIN new_dict = DOMAIN model
      /\ \A k \in DOMAIN model :
           IF k \in DOMAIN old_dict /\ old_dict[k].shape = model[k].shape
             THEN new_dict[k] = old_dict[k]
             ELSE new_dict[k] = model[k]

\* target {a, b}, source {a, c}: a is transferred, b is kept, c is ignored
C3_Witness ==
    /\ pc = "done"
    /\ \E a \in DOMAIN model \cap DOMAIN old_dict :
         /\ model[a].shape = old_dict[a].shape
         /\ model[a].data # old_dict[a].data
         /\ new_dict[a] = old_dict[a]
    /\ \E b \in DOMAIN model : b \notin DOMAIN old_dict
    /\ \E c \in DOMAIN old_dict : c \notin DOMAIN model /\ c \notin DOMAIN new_dict

C5_ZeroWeightDoesNotFail ==
    (meterCall.op = "update" /\ meterCall.n = 0 /\ meterCall.countBefore = 0) =>
      /\ ~meterCall.raised
      /\ sum = 0
      /\ count = 0
      /\ avg = Zero

\* C6: with every weight since the last reset at least 1, count is the sum of
\* the weights, sum is the sum of value*weight, and avg is sum/count when
\* count > 0; right after construction or reset() avg, sum and count are 0.
C6_MeterAverage ==
    /\ AllWeightsPositive =>
         /\ count = SumWeights(updates)
         /\ sum = SumProducts(updates)
         /\ count > 0 =>
              /\ avg[2] > 0
              /\ avg[1] * SumWeights(updates) = SumProducts(updates) * avg[2]
    /\ meterCall.op \in {"init", "reset"} => avg = Zero /\ sum = 0 /\ count = 0

C6_Witness ==
    /\ Len(updates) >= 2
    /\ AllWeightsPositive
    /\ \E i, j \in 1..Len(updates) : updates[i][2] # updates[j][2]
    /\ meterCall.op = "update"
    /\ avg[2] > 1

\* C7: when a call evicts a path whose file does not exist, the entry leaves
\* the registry, no file is deleted, nothing is logged and the call does not
\* raise.
C7_MissingFileEviction ==
    (call.evicted # <<>> /\ ~call.existed) =>
      /\ Last(evicted) = call.evicted[1]
      /\ saved_weights_paths = SubSeq(registered, Len(evicted) + 1, Len(registered))
      /\ call.deleted = {}
      /\ call.logged = <<>>
      /\ ~call.raised

C7_Witness ==
    /\ call.evicted # <<>>
    /\ ~call.existed
    /\ ~call.raised
    /\ call.evicted[1] \notin Range(saved_weights_paths)

\* C8: a call evicts at most one entry and deletes at most one file, the
\* deleted file is the one the evicted entry names, the info line naming it
\* is logged exactly when a file was deleted, and a call that evicts nothing
\* deletes nothing and logs nothing.
C8_OneDeletionPerCall ==
    /\ Len(call.evicted) <= 1
    /\ Len(evicted) <= Len(registered)
    /\ Cardinality(call.deleted) <= 1
    /\ call.deleted \subseteq Range(call.evicted)
    /\ call.logged = IF call.deleted = {} THEN <<>> ELSE <<InfoRemoved(call.evicted[1])>>
    /\ call.evicted = <<>> => call.deleted = {} /\ call.logged = <<>>

C8_Witness ==
    /\ call.deleted # {}
    /\ call.logged # <<>>
    /\ Len(registered) > Len(evicted) + 1

\* C9: the call completes and logs 'not loaded' once for each model key whose
\* tensor was not taken from the checkpoint (missing there, or of another
\* shape), in iteration order, and for no other key.
C9_NotLoadedLog ==
    pc = "done" =>
      LET transferred(k) == k \in DOMAIN old_dict /\ old_dict[k].shape = model[k].shape
          skipped == SelectSeq(Items(DOMAIN model), LAMBDA k : ~transferred(k))
      IN  log = [i \in 1..Len(skipped) |-> NotLoaded(skipped[i])]

C9_Witness ==
    /\ pc = "done"
    /\ Len(log) >= 2
    /\ \E k \in DOMAIN model \cap DOMAIN old_dict : model[k].shape # old_dict[k].shape
    /\ \E k \in DOMAIN model : k \notin DOMAIN old_dict
    /\ \E k \in DOMAIN old_dict : k \notin DOMAIN model

\* C10 (as claimed): a register call never deletes the file of a path that is
\* still in the registry after the call; every retained path whose file
\* existed when it was last registered still has its file.
C10_RetainedFilesKept ==
    /\ call.deleted \cap Range(saved_weights_paths) = {}
    /\ \A p \in Range(saved_weights_paths) : existedAtReg[p] => p \in disk
====
